---- MODULE Spec2Model ----
(***************************************************************************)
(* Model of the Stratus client dashboard (src/src/pages/Dashboard.tsx,     *)
(* src/src/hooks/useAuth.tsx, src/src/config/features.ts).                 *)
(*                                                                         *)
(* JavaScript numbers are modelled in fixed point.  An angle in degrees is *)
(* an integer number of hundredths of a degree (DegUnit), every other      *)
(* quantity an integer number of 1/Scale units.  A product or a library    *)
(* call (Math.sin, Math.exp, ...) is rounded to the nearest representable  *)
(* value, as IEEE-754 rounds to the nearest double; NaN is the value NaN.  *)
(***************************************************************************)
EXTENDS Integers, Sequences, FiniteSets, TLC

VARIABLES
    pc,           \* position of a single derivation call: "ready" | "done"
    arg,          \* the arguments of the call (a record)
    ret,          \* the value the call returned ("none" before it returns)
    now,          \* the wall clock, in ticks since the dashboard mounted
    station,      \* Dashboard: data of useQuery(['station'])
    latestData,   \* Dashboard: data of useQuery(['latestData'])
    realtimeData, \* Dashboard: useState realtimeData
    memo,         \* Dashboard: the cells of the four useMemo calls
    view,         \* Dashboard: what the last render computed and displays
    exported,     \* the content of the last PDF report
    env,          \* features.ts: import.meta.env
    features,     \* features.ts: the exported features object
    console,      \* features.ts: what console.log has written
    ws,           \* RealtimeConnection: this.ws (0 for null, else a socket)
    sockets,      \* every WebSocket the connection has constructed
    reconnectTimer, \* RealtimeConnection: this.reconnectTimer
    timers,       \* every timer the connection has set with setTimeout
    listeners,    \* RealtimeConnection: this.listeners
    received,     \* the calls of listeners the last weather_update made
    disconnected, \* disconnect() has been called
    storage,      \* localStorage: the items stratus_token and stratus_user
    user,         \* AuthProvider: useState user
    isLoading,    \* AuthProvider: useState isLoading
    session,      \* AuthProvider: the position and the locals of checkSession
    page          \* Login: its state, and the position of handleSubmit

callVars == <<pc, arg, ret>>

dashVars == <<now, station, latestData, realtimeData, memo, view, exported>>

featVars == <<env, features, console>>

connVars ==
    <<ws, sockets, reconnectTimer, timers, listeners, received, disconnected>>

authVars == <<storage, user, isLoading, session, page>>

vars == <<pc, arg, ret, now, station, latestData, realtimeData, memo, view,
          exported, env, features, console, ws, sockets, reconnectTimer,
          timers, listeners, received, disconnected, storage, user,
          isLoading, session, page>>

\* ------------------------------------------------------------------------
\* Number representation
\* ------------------------------------------------------------------------

\* hundredths of a degree per degree
DegUnit == 10 * 10

\* JavaScript's % : the remainder takes the sign of the dividend
JsRem(a, n) == IF a >= 0 THEN a % n ELSE -((-a) % n)

\* Math.round(a / n) for n > 0: the nearest integer, a tie going towards +Infinity
RoundDiv(a, n) == (2 * a + n) \div (2 * n)

\* Math.floor(a / n) for n > 0
FloorDiv(a, n) == a \div n

Abs(x) == IF x < 0 THEN -x ELSE x

\* ------------------------------------------------------------------------
\* Fixed-point arithmetic: a number x is the integer nearest to x * Scale
\* ------------------------------------------------------------------------

Scale == 10 * 1000

\* NaN: a value no computation of the model reaches by arithmetic
NaN == 0 - 2147483647

\* the largest magnitude of the model, for a result too large for it:
\* Infinity, and Math.tan of the double nearest to pi/2, which is 1.633e16
Huge == 1000 * 1000 * 1000

IsNaN(x) == x = NaN

Sign(x) == IF x < 0 THEN -1 ELSE 1

Max(a, b) == IF a >= b THEN a ELSE b

Min(a, b) == IF a <= b THEN a ELSE b

\* a / n rounded to the nearest integer, n > 0, for a of either sign
DivR(a, n) == Sign(a) * ((Abs(a) + n \div 2) \div n)

\* the product x * y of two fixed-point numbers, x, y >= 0, rounded to the
\* nearest; the factors are split in whole and fractional parts so that no
\* intermediate leaves 32 bits
MulAbs(x, y) ==
    (x \div Scale) * (y \div Scale) * Scale
    + (x \div Scale) * (y % Scale)
    + (x % Scale) * (y \div Scale)
    + ((x % Scale) * (y % Scale) + Scale \div 2) \div Scale

\* the product a * b of two fixed-point numbers of either sign
Mul(a, b) == Sign(a) * Sign(b) * MulAbs(Abs(a), Abs(b))

\* n more decimal digits of r / y, r < y, the last one rounded
RECURSIVE DivDigits(_, _, _)
DivDigits(r, y, n) ==
    IF n = 0 THEN (IF 2 * r >= y THEN 1 ELSE 0)
    ELSE ((r * 10) \div y) * 10 ^ (n - 1) + DivDigits((r * 10) % y, y, n - 1)

\* x / y for x, y >= 0, y # 0, by long division to the four decimal digits
\* of Scale, the last one rounded
DivAbs(x, y) == (x \div y) * Scale + DivDigits(x % y, y, 4)

\* v, or v without its last digit when the divisor b is above 10^8, so that
\* no intermediate of the long division leaves 32 bits
Shorten(v, b) == IF b > 100000000 THEN v \div 10 ELSE v

\* the quotient a / b of two fixed-point numbers, b # 0, rounded to the
\* nearest
Div(a, b) ==
    Sign(a) * Sign(b)
    * DivAbs(Shorten(Abs(a), Abs(b)), Shorten(Abs(b), Abs(b)))

\* e^r for 0 <= r < 1 by the Taylor series, in Horner form from term n down
RECURSIVE ExpSeries(_, _, _)
ExpSeries(r, n, acc) ==
    IF n = 0 THEN acc
    ELSE ExpSeries(r, n - 1, Scale + DivR(r * acc, Scale * n))

\* v * e^k for an integer k (e = 2.7183)
RECURSIVE TimesEPow(_, _)
TimesEPow(v, k) ==
    IF k = 0 THEN v
    ELSE IF k > 0 THEN TimesEPow(Mul(v, 27183), k - 1)
    ELSE TimesEPow(DivR(v * Scale, 27183), k + 1)

\* Math.exp(x)
Exp(x) ==
    TimesEPow(ExpSeries(x - (x \div Scale) * Scale, 9, Scale), x \div Scale)

\* x / 2^n brought into [Scale, 2*Scale): <<mantissa, n>>, x > 0
RECURSIVE Normalise(_, _)
Normalise(x, n) ==
    IF x >= 2 * Scale THEN Normalise(DivR(x, 2), n + 1)
    ELSE IF x < Scale THEN Normalise(2 * x, n - 1)
    ELSE <<x, n>>

\* z + z^3/3 + z^5/5 + ... (atanh z) for 0 <= z <= 1/3, terms k, k+2, .., 11
RECURSIVE AtanhSeries(_, _, _)
AtanhSeries(z, k, zk) ==
    IF k > 11 THEN 0
    ELSE DivR(zk, k) + AtanhSeries(z, k + 2, Mul(Mul(zk, z), z))

\* atanh z for 0 <= z <= 1/3
Atanh(z) == AtanhSeries(z, 1, z)

\* n ln 2 + 2 atanh((m - 1) / (m + 1)) for mn = <<m, n>>, ln 2 = 0.6931
LnNormalised(mn) ==
    mn[2] * 6931 + 2 * Atanh(Div(mn[1] - Scale, mn[1] + Scale))

\* Math.log(x) for x > 0: ln x = ln (m 2^n) with m in [1, 2)
Ln(x) == LnNormalised(Normalise(x, 0))

\* Math.pow(base, e) for an exponent e that is not an integer: NaN for a NaN
\* or negative base; for a base of 0, 0 (e > 0) or Infinity (e < 0)
Pow(base, e) ==
    IF IsNaN(base) THEN NaN
    ELSE IF base < 0 THEN NaN
    ELSE IF base = 0 THEN (IF e > 0 THEN 0 ELSE Huge)
    ELSE Exp(Mul(e, Ln(base)))

\* a * b where either may be NaN
MulN(a, b) == IF IsNaN(a) \/ IsNaN(b) THEN NaN ELSE Mul(a, b)

\* Math.max(a, b): NaN when either is NaN
MaxN(a, b) == IF IsNaN(a) \/ IsNaN(b) THEN NaN ELSE Max(a, b)

\* a < b in JavaScript: false when either is NaN
Lt(a, b) == ~IsNaN(a) /\ ~IsNaN(b) /\ a < b

\* ------------------------------------------------------------------------
\* Trigonometry.  The code converts degrees to radians (* Math.PI / 180)
\* before a call and back (* 180 / Math.PI) after one; the operators below
\* take and return hundredths of a degree, the conversion being their first
\* or last step.
\* ------------------------------------------------------------------------

\* x radians (fixed point) for a hundredths of a degree, 0 <= a <= 9000
Radians(a) == DivR(a * 31416, 18000)

\* one step of a Taylor series in Horner form: 1 - z h / d
Horner(z, h, d) == Scale - DivR(Mul(z, h), d)

\* x (1 - z/6 (1 - z/20 (1 - z/42 (1 - z/72)))), the series of sin x, z = x^2
SinPoly(x, z) ==
    Mul(x, Horner(z, Horner(z, Horner(z, Scale - DivR(z, 72), 42), 20), 6))

\* 1 - z/2 (1 - z/12 (1 - z/30 (1 - z/56))), the series of cos x, z = x^2
CosPoly(z) == Horner(z, Horner(z, Horner(z, Scale - DivR(z, 56), 30), 12), 2)

\* sin x and cos x for 0 <= x <= pi/4
SinSmall(x) == SinPoly(x, Mul(x, x))

CosSmall(x) == CosPoly(Mul(x, x))

\* the sine of a, 0 <= a <= 9000
SinQuadrant(a) ==
    IF a <= 4500 THEN SinSmall(Radians(a)) ELSE CosSmall(Radians(9000 - a))

\* the angle in 0 .. 9000 whose sine is that of r up to the sign, r in
\* 0 .. 35999
QuadrantAngle(r) ==
    IF r <= 9000 THEN r
    ELSE IF r <= 18000 THEN 18000 - r
    ELSE IF r <= 27000 THEN r - 18000
    ELSE 36000 - r

\* Math.sin(a * Math.PI / 180)
Sin(a) ==
    (IF a % 36000 <= 18000 THEN 1 ELSE -1)
    * SinQuadrant(QuadrantAngle(a % 36000))

\* Math.cos(a * Math.PI / 180)
Cos(a) == Sin(a + 9000)

\* s / c, Infinity with the sign of s when c is 0
TanOf(s, c) == IF c = 0 THEN Sign(s) * Huge ELSE Div(s, c)

\* Math.tan(a * Math.PI / 180)
Tan(a) == TanOf(Sin(a), Cos(a))

\* the least a in lo .. hi with Sin(a) >= y, for 0 <= y, Sin(hi) >= y
RECURSIVE AsinSearch(_, _, _)
AsinSearch(y, lo, hi) ==
    IF lo >= hi THEN hi
    ELSE LET mid == (lo + hi) \div 2
         IN  IF Sin(mid) >= y THEN AsinSearch(y, lo, mid)
             ELSE AsinSearch(y, mid + 1, hi)

\* Math.asin(y) * 180 / Math.PI: NaN for y outside [-1, 1]
Asin(y) ==
    IF IsNaN(y) \/ y > Scale \/ y < -Scale THEN NaN
    ELSE IF Abs(y) = Scale THEN Sign(y) * 9000
    ELSE Sign(y) * AsinSearch(Abs(y), 0, 9000)

\* acos y = 90 - asin y
AcosOf(asin) == IF IsNaN(asin) THEN NaN ELSE 9000 - asin

\* Math.acos(y) * 180 / Math.PI: NaN for y outside [-1, 1]
Acos(y) == AcosOf(Asin(y))

\* the least a in lo .. hi with sin(a) * x >= cos(a) * y, for x, y >= 0
RECURSIVE AtanSearch(_, _, _, _)
AtanSearch(y, x, lo, hi) ==
    IF lo >= hi THEN hi
    ELSE LET mid == (lo + hi) \div 2
         IN  IF Mul(Sin(mid), x) >= Mul(Cos(mid), y)
                 THEN AtanSearch(y, x, lo, mid)
             ELSE AtanSearch(y, x, mid + 1, hi)

\* the angle of (x, y) in (-180, 180] from the angle a of (|x|, |y|)
AtanQuadrant(y, x, a) ==
    IF x >= 0 THEN Sign(y) * a
    ELSE IF y >= 0 THEN 18000 - a
    ELSE a - 18000

\* Math.atan2(y, x) * 180 / Math.PI, in (-180, 180]
Atan2(y, x) ==
    AtanQuadrant(y, x,
                 IF y = 0 THEN 0 ELSE AtanSearch(Abs(y), Abs(x), 0, 9000))

\* Math.floor(x) and the truncation of x to an integer, x in fixed point
Floor(x) == x \div Scale

Trunc(x) == Sign(x) * (Abs(x) \div Scale)

\* ------------------------------------------------------------------------
\* getWindDirectionName (Dashboard.tsx 184-188)
\* ------------------------------------------------------------------------

directions == <<"N", "NNE", "NE", "ENE", "E", "ESE", "SE", "SSE",
                "S", "SSW", "SW", "WSW", "W", "WNW", "NW", "NNW">>

\* directions[index]: an index outside 0..15 reads undefined
Lookup(index) == IF index \in 0..15 THEN directions[index + 1] ELSE "undefined"

\* Math.round(((degrees % 360) / 22.5)) % 16, degrees in hundredths of a degree
WindIndex(degrees) == JsRem(RoundDiv(JsRem(degrees, 360 * DegUnit), 2250), 16)

\* the same with Math.floor in place of Math.round
getWindDirectionName_floor(degrees) ==
    Lookup(JsRem(FloorDiv(JsRem(degrees, 360 * DegUnit), 2250), 16))

getWindDirectionName(degrees) == Lookup(WindIndex(degrees))

\* ------------------------------------------------------------------------
\* calculateSolarPosition (Dashboard.tsx 58-108)
\*
\* lat and lon are hundredths of a degree.  date is a record: dayOfYear
\* (the value line 59 computes), minutes (of the local day, 0 .. 1439) and
\* tzOffset (date.getTimezoneOffset(), minutes).  An hour is a fixed-point
\* number; a returned Date is the number of minutes after the local midnight
\* of date, NaN for an Invalid Date.
\* ------------------------------------------------------------------------

\* 23.45 * Math.sin((360 / 365) * (dayOfYear - 81) * Math.PI / 180)
Declination(dayOfYear) ==
    DivR(2345 * Sin(DivR(36000 * (dayOfYear - 81), 365)), Scale)

\* date.getHours() + date.getMinutes() / 60
HourOf(date) ==
    (date.minutes \div 60) * Scale + DivR((date.minutes % 60) * Scale, 60)

\* 15 * (hour - (12 - lon / 15))
HourAngle(lon, date) ==
    DivR(15 * (HourOf(date) - (12 * Scale - DivR(lon * Scale, 1500))), 100)

\* sin(lat) sin(dec) + cos(lat) cos(dec) cos(ha)
ElevationSineOf(lat, dec, ha) ==
    Mul(Sin(lat), Sin(dec)) + Mul(Mul(Cos(lat), Cos(dec)), Cos(ha))

\* the argument of Math.asin on lines 74-77
ElevationSine(lat, lon, date) ==
    ElevationSineOf(lat, Declination(date.dayOfYear), HourAngle(lon, date))

\* const cosHA = -Math.tan(latRad) * Math.tan(decRad)
CosHA(lat, dayOfYear) == -Mul(Tan(lat), Tan(Declination(dayOfYear)))

\* the argument of Math.acos without the clamp
HourAngleCos_unclamped(cosHA) == cosHA

\* Math.max(-1, Math.min(1, cosHA))
HourAngleCos(cosHA) == Max(-Scale, Min(Scale, cosHA))

\* const haRise = Math.acos(...) * 180 / Math.PI
HaRise(lat, dayOfYear) == Acos(HourAngleCos(CosHA(lat, dayOfYear)))

\* 12 -/+ haRise / 15 - lon / 15 + date.getTimezoneOffset() / 60
SunHour(sign, haRise, lon, date) ==
    IF IsNaN(haRise) THEN NaN
    ELSE 12 * Scale + sign * DivR(haRise * Scale, 1500)
         - DivR(lon * Scale, 1500) + DivR(date.tzOffset * Scale, 60)

\* d.setHours(Math.floor(h), (h % 1) * 60, 0) on a copy of date: the minute
\* argument is truncated to an integer
SetHoursMinutes(h) ==
    IF IsNaN(h) THEN NaN
    ELSE Floor(h) * 60 + Trunc(JsRem(h, Scale) * 60)

\* d.setHours(h) on a copy of date: h is truncated, the minutes stay
SetHours(h, date) == Trunc(h) * 60 + (date.minutes % 60)

\* (azimuth + 360) % 360
NormaliseAzimuth(azimuth) == JsRem(azimuth + 36000, 36000)

\* the azimuth returned unnormalised
NormaliseAzimuth_none(azimuth) == azimuth

\* atan2(sin(ha), cos(ha) sin(lat) - tan(dec) cos(lat)) + 180
RawAzimuthOf(lat, dec, ha) ==
    Atan2(Sin(ha), Mul(Cos(ha), Sin(lat)) - Mul(Tan(dec), Cos(lat))) + 18000

\* the azimuth before the normalisation (lines 80-83)
RawAzimuth(lat, lon, date) ==
    RawAzimuthOf(lat, Declination(date.dayOfYear), HourAngle(lon, date))

\* the day length taken as twice the time from 12:00 to sunset
DayLength_fromSunset(sunriseHour, sunsetHour) ==
    IF IsNaN(sunriseHour) \/ IsNaN(sunsetHour) THEN NaN
    ELSE (sunsetHour - 12 * Scale) * 2 * 60

\* (sunsetHour - sunriseHour) * 60, in fixed-point minutes
DayLength(sunriseHour, sunsetHour) ==
    IF IsNaN(sunriseHour) \/ IsNaN(sunsetHour) THEN NaN
    ELSE (sunsetHour - sunriseHour) * 60

\* the returned record, given haRise (lines 88-107)
SolarPositionWith(lat, lon, date, haRise) ==
    LET sunriseHour == SunHour(-1, haRise, lon, date)
        sunsetHour  == SunHour(1, haRise, lon, date)
    IN  [elevation |-> MaxN(-9000, Asin(ElevationSine(lat, lon, date))),
         azimuth   |-> NormaliseAzimuth(RawAzimuth(lat, lon, date)),
         sunrise   |-> SetHoursMinutes(sunriseHour),
         sunset    |-> SetHoursMinutes(sunsetHour),
         solarNoon |-> SetHours(12 * Scale - DivR(lon * Scale, 1500)
                                + DivR(date.tzOffset * Scale, 60), date),
         dayLength |-> DayLength(sunriseHour, sunsetHour)]

calculateSolarPosition(lat, lon, date) ==
    SolarPositionWith(lat, lon, date, HaRise(lat, date.dayOfYear))

\* ------------------------------------------------------------------------
\* calculateAirDensity (113-126), calculateSeaLevelPressure (131-139),
\* calculateWindPower (176-179)
\* ------------------------------------------------------------------------

\* 611.21 * Math.exp((17.502 * temp) / (240.97 + temp)), in Pa
AirEs(temp) == Mul(6112100, Exp(Div(Mul(175020, temp), 2409700 + temp)))

\* P / (Rd * Tv) with Tv = T / (1 - (e / P) * (1 - Rd / Rv)); Rd = 287.05,
\* Rv = 461.495
AirDensityOf(T, P, e) ==
    Div(P, Mul(2870500,
               Div(T, Scale - Mul(Div(e, P), Scale - Div(2870500, 4614950)))))

calculateAirDensity(temp, pressure, humidity) ==
    AirDensityOf(temp + 2731500, pressure * 100,
                 Mul(DivR(humidity, 100), AirEs(temp)))

\* stationPressure * Math.pow(1 - (L * altitude) / T, -(g * M) / (R * L)):
\* L = 0.0065, T = temp + 273.15, and the exponent, of constants only, is
\* -(9.80665 * 0.0289644) / (8.31447 * 0.0065) = -5.2558
calculateSeaLevelPressure(stationPressure, altitude, temp) ==
    MulN(stationPressure,
         Pow(Scale - Div(Mul(65, altitude), temp + 2731500), -52558))

\* 0.5 * airDensity * v^3
WindPowerOf(v, airDensity) == Mul(Mul(5000, airDensity), Mul(Mul(v, v), v))

\* 0.5 * airDensity * Math.pow(windSpeed / 3.6, 3)
calculateWindPower(windSpeed, airDensity) ==
    WindPowerOf(Div(windSpeed, 36000), airDensity)

\* ------------------------------------------------------------------------
\* calculateFireDanger (Dashboard.tsx 144-171)
\* ------------------------------------------------------------------------

\* const DF = 10
DF == 10

\* 2 * Math.exp(-0.45 + 0.987 * Math.log(DF) - 0.0345 * humidity
\*              + 0.0338 * temp + 0.0234 * V)
FFDI(temp, humidity, windSpeed) ==
    2 * Exp(-4500 + Mul(9870, Ln(DF * Scale)) - Mul(345, humidity)
            + Mul(338, temp) + Mul(234, windSpeed))

\* Math.pow(temp / 25, 1.3) * Math.pow((100 - humidity) / 50, 1.2)
\*   * Math.pow(windSpeed / 25, 0.5) * 10
TimesTen(p) == IF IsNaN(p) THEN NaN ELSE p * 10

GFDI(temp, humidity, windSpeed) ==
    TimesTen(MulN(MulN(Pow(DivR(temp, 25), 13000),
                       Pow(DivR(100 * Scale - humidity, 50), 12000)),
                  Pow(DivR(windSpeed, 25), 5000)))

\* the chain with the tests for 'Severe' and 'Extreme' in the wrong order
FireLevel_misordered(ffdi) ==
    IF Lt(ffdi, 12 * Scale) THEN [level |-> "Low-Moderate", color |-> "#22c55e"]
    ELSE IF Lt(ffdi, 25 * Scale) THEN [level |-> "High", color |-> "#eab308"]
    ELSE IF Lt(ffdi, 50 * Scale) THEN [level |-> "Very High", color |-> "#f97316"]
    ELSE IF Lt(ffdi, 100 * Scale) THEN [level |-> "Extreme", color |-> "#dc2626"]
    ELSE IF Lt(ffdi, 75 * Scale) THEN [level |-> "Severe", color |-> "#ef4444"]
    ELSE [level |-> "Catastrophic", color |-> "#7f1d1d"]

\* the if / else-if chain that sets level and color
FireLevel(ffdi) ==
    IF Lt(ffdi, 12 * Scale) THEN [level |-> "Low-Moderate", color |-> "#22c55e"]
    ELSE IF Lt(ffdi, 25 * Scale) THEN [level |-> "High", color |-> "#eab308"]
    ELSE IF Lt(ffdi, 50 * Scale) THEN [level |-> "Very High", color |-> "#f97316"]
    ELSE IF Lt(ffdi, 75 * Scale) THEN [level |-> "Severe", color |-> "#ef4444"]
    ELSE IF Lt(ffdi, 100 * Scale) THEN [level |-> "Extreme", color |-> "#dc2626"]
    ELSE [level |-> "Catastrophic", color |-> "#7f1d1d"]

\* return { ffdi, gfdi, level, color }
FireDangerOf(ffdi, gfdi) ==
    [ffdi  |-> ffdi,
     gfdi  |-> gfdi,
     level |-> FireLevel(ffdi).level,
     color |-> FireLevel(ffdi).color]

calculateFireDanger(temp, humidity, windSpeed) ==
    FireDangerOf(FFDI(temp, humidity, windSpeed),
                 GFDI(temp, humidity, windSpeed))

\* ------------------------------------------------------------------------
\* calculateETo (Dashboard.tsx 193-204)
\* ------------------------------------------------------------------------

\* the saturation vapour pressure of calculateAirDensity, in kPa
EToEs_magnus(temp) == DivR(AirEs(temp), 1000)

\* 0.6108 * Math.exp((17.27 * temp) / (temp + 237.3))
EToEs(temp) == Mul(6108, Exp(Div(Mul(172700, temp), temp + 2373000)))

\* (0.408 * delta * Rn + gamma * (900 / (temp + 273)) * u2 * (es - ea))
\*   / (delta + gamma * (1 + 0.34 * u2)), gamma = 0.067
PenmanMonteith(temp, delta, es, ea, u2, Rn) ==
    Div(Mul(Mul(4080, delta), Rn)
        + Mul(Mul(Mul(670, Div(900 * Scale, temp + 273 * Scale)), u2),
              es - ea),
        delta + Mul(670, Scale + Mul(3400, u2)))

\* delta = 4098 * es / Math.pow(temp + 237.3, 2), ea = es * (humidity / 100)
EToWith(temp, humidity, es, u2, Rn) ==
    PenmanMonteith(temp,
                   Div(4098 * es, Mul(temp + 2373000, temp + 2373000)),
                   es, Mul(es, DivR(humidity, 100)), u2, Rn)

\* the value of eto before the clamp: u2 = windSpeed / 3.6,
\* Rn = solarRadiation * 0.0036
EToRaw(temp, humidity, windSpeed, solarRadiation) ==
    EToWith(temp, humidity, EToEs(temp), Div(windSpeed, 36000),
            Mul(solarRadiation, 36))

\* calculateETo without the final Math.max(0, eto)
calculateETo_unclamped(temp, humidity, windSpeed, solarRadiation) ==
    EToRaw(temp, humidity, windSpeed, solarRadiation)

calculateETo(temp, humidity, windSpeed, solarRadiation) ==
    MaxN(0, EToRaw(temp, humidity, windSpeed, solarRadiation))

\* ------------------------------------------------------------------------
\* Dashboard (Dashboard.tsx 608-798)
\* ------------------------------------------------------------------------

\* undefined (a missing property, a query without data) and null: values no
\* number of the model takes
Undefined == 0 - 2147483646

Null == 0 - 2147483645

\* an object that is undefined (a query without data), and one that is null
NoObject == [kind |-> "undefined"]

NullObject == [kind |-> "null"]

Nullish(obj) == obj = NoObject \/ obj = NullObject

\* a reading of a snapshot (number | string | null), or undefined for a
\* channel the snapshot does not hold; a string is the sequence of its
\* characters
Number(x) == [kind |-> "number", num |-> x]

String(chars) == [kind |-> "string", str |-> chars]

NullReading == [kind |-> "null"]

NoReading == [kind |-> "undefined"]

IsDigit(c) == c \in {"0", "1", "2", "3", "4", "5", "6", "7", "8", "9"}

DigitValue(c) ==
    CASE c = "0" -> 0 [] c = "1" -> 1 [] c = "2" -> 2 [] c = "3" -> 3
      [] c = "4" -> 4 [] c = "5" -> 5 [] c = "6" -> 6 [] c = "7" -> 7
      [] c = "8" -> 8 [] c = "9" -> 9

\* s without its leading white space
RECURSIVE SkipSpace(_)
SkipSpace(s) ==
    IF s # <<>> /\ Head(s) = " " THEN SkipSpace(Tail(s)) ELSE s

\* the longest prefix of s made of digits
RECURSIVE LeadingDigits(_)
LeadingDigits(s) ==
    IF s # <<>> /\ IsDigit(Head(s)) THEN <<Head(s)>> \o LeadingDigits(Tail(s))
    ELSE <<>>

\* the number a sequence of digits writes, after acc
RECURSIVE DigitsValue(_, _)
DigitsValue(d, acc) ==
    IF d = <<>> THEN acc
    ELSE DigitsValue(Tail(d), acc * 10 + DigitValue(Head(d)))

\* the fixed-point value of the fraction digits frac (the first four count)
FractionValue(frac) ==
    DigitsValue(SubSeq(frac, 1, Min(4, Len(frac))), 0)
    * 10 ^ (4 - Min(4, Len(frac)))

\* the fraction digits of s after the integer digits int: those behind a "."
FractionDigits(s, int) ==
    IF Len(s) > Len(int) /\ s[Len(int) + 1] = "."
        THEN LeadingDigits(SubSeq(s, Len(int) + 2, Len(s)))
    ELSE <<>>

\* the number of the longest prefix digits[.digits] or .digits of s, NaN
\* when s has no such prefix
ParseUnsigned(s) ==
    IF LeadingDigits(s) = <<>> /\ FractionDigits(s, LeadingDigits(s)) = <<>>
        THEN NaN
    ELSE DigitsValue(LeadingDigits(s), 0) * Scale
         + FractionValue(FractionDigits(s, LeadingDigits(s)))

Negate(x) == IF IsNaN(x) THEN NaN ELSE -x

\* parseFloat(String(val)) for a string without exponent: white space, an
\* optional sign, and the longest decimal prefix
ParseSigned(s) ==
    IF s = <<>> THEN NaN
    ELSE IF Head(s) = "-" THEN Negate(ParseUnsigned(Tail(s)))
    ELSE IF Head(s) = "+" THEN ParseUnsigned(Tail(s))
    ELSE ParseUnsigned(s)

parseFloat(str) == ParseSigned(SkipSpace(str))

\* const demoValues = { ... } (the entries legible on lines 652-665)
demoValues(key) ==
    CASE key = "temperature" -> 264000
      [] key = "humidity"    -> 520000
      [] key = "pressure"    -> 8652000
      [] key = "windSpeed"   -> 145000
      [] key = "uvIndex"     -> 98000
      [] OTHER               -> Undefined

\* x || d for a number x that may be undefined: 0 and NaN are falsy too
OrElse(x, d) == IF x = Undefined \/ x = Null \/ x = 0 \/ IsNaN(x) THEN d ELSE x

\* const values = currentData?.data || {}; values[key]
ValueOf(currentData, key) ==
    IF Nullish(currentData) THEN NoReading
    ELSE IF key \in DOMAIN currentData.data THEN currentData.data[key]
    ELSE NoReading

\* typeof val === 'number' ? val : parseFloat(String(val))
NumOf(val) == IF val.kind = "number" THEN val.num ELSE parseFloat(val.str)

\* getValue with the test 'if (val)' in place of the tests against null
\* and undefined
getValue_truthy(currentData, key) ==
    LET val == ValueOf(currentData, key)
    IN  IF val.kind \in {"number", "string"} /\ ~IsNaN(NumOf(val))
           /\ NumOf(val) # 0
            THEN NumOf(val)
        ELSE OrElse(demoValues(key), 0)

\* getValue(key)
getValue(currentData, key) ==
    LET val == ValueOf(currentData, key)
    IN  IF val.kind \in {"number", "string"} /\ ~IsNaN(NumOf(val))
            THEN NumOf(val)
        ELSE OrElse(demoValues(key), 0)

\* the two operands the other way round: latestData || realtimeData
CurrentData_polledFirst(realtime, latest) ==
    IF ~Nullish(latest) THEN latest ELSE realtime

\* const currentData = realtimeData || latestData
CurrentData(realtime, latest) == IF ~Nullish(realtime) THEN realtime ELSE latest

\* station?.latitude (longitude, altitude)
StationField(st, f) == IF Nullish(st) THEN Undefined ELSE st[f]

\* new Date() at tick t: a poll interval (one minute) a tick, from 10:00 on
\* 14 February, a timezone two hours east of Greenwich
DateAt(t) == [dayOfYear |-> 45, minutes |-> 600 + t, tzOffset |-> -120]

\* useMemo(() => fresh, deps): the cell is recomputed when a dependency
\* has changed since the render that filled it
UseMemo(cell, deps, fresh) ==
    IF cell.deps = deps THEN cell ELSE [deps |-> deps, value |-> fresh]

NoCell == [deps |-> <<>>, value |-> Undefined]

NoMemo == [solarPosition |-> NoCell, airDensity |-> NoCell,
           seaLevelPressure |-> NoCell, eto |-> NoCell]

\* new Date(timestamp).toLocaleString(): the text of the date
DateString(timestamp) == "date of " \o timestamp

\* currentData?.timestamp ? new Date(currentData.timestamp).toLocaleString()
\*                        : 'Demo data'
LastUpdate(currentData) ==
    IF Nullish(currentData) THEN "Demo data"
    ELSE IF currentData.timestamp = "" THEN "Demo data"
    ELSE DateString(currentData.timestamp)

\* the readings and coordinates of a render (lines 684-693), with the
\* channels the cards read (lines 868-944)
Readings(st, currentData) ==
    [temp           |-> getValue(currentData, "temperature"),
     humidity       |-> getValue(currentData, "humidity"),
     pressure       |-> getValue(currentData, "pressure"),
     windSpeed      |-> getValue(currentData, "windSpeed"),
     solarRadiation |-> getValue(currentData, "solarRadiation"),
     windDirection  |-> getValue(currentData, "windDirection"),
     windGust       |-> getValue(currentData, "windGust"),
     uvIndex        |-> getValue(currentData, "uvIndex"),
     rainfall       |-> getValue(currentData, "rainfall"),
     lat            |-> OrElse(StationField(st, "latitude"), -2671),
     lon            |-> OrElse(StationField(st, "longitude"), 2710),
     altitude       |-> OrElse(StationField(st, "altitude"), 1351 * Scale)]

\* what a render leaves: the cells of the four useMemo calls and the values
\* on the screen
Rendered(t, currentData, rd, solarPosition, airDensity, seaLevelPressure, eto) ==
    [memo |-> [solarPosition |-> solarPosition, airDensity |-> airDensity,
               seaLevelPressure |-> seaLevelPressure, eto |-> eto],
     view |-> [at |-> t,
               lastUpdate |-> LastUpdate(currentData),
               temperature |-> rd.temp,
               humidity |-> rd.humidity,
               pressure |-> rd.pressure,
               windSpeed |-> rd.windSpeed,
               solarRadiation |-> rd.solarRadiation,
               windDirection |-> rd.windDirection,
               windGust |-> rd.windGust,
               uvIndex |-> rd.uvIndex,
               rainfall |-> rd.rainfall,
               solarPosition |-> solarPosition.value,
               airDensity |-> airDensity.value,
               seaLevelPressure |-> seaLevelPressure.value,
               eto |-> eto.value,
               fireDanger |-> calculateFireDanger(rd.temp, rd.humidity,
                                                  rd.windSpeed),
               windPower |-> calculateWindPower(rd.windSpeed,
                                                airDensity.value)]]

\* the derived values of a render (lines 695-698) from its readings rd
Derive(t, currentData, oldMemo, rd) ==
    Rendered(t, currentData, rd,
             UseMemo(oldMemo.solarPosition, <<rd.lat, rd.lon>>,
                     calculateSolarPosition(rd.lat, rd.lon, DateAt(t))),
             UseMemo(oldMemo.airDensity,
                     <<rd.temp, rd.pressure, rd.humidity>>,
                     calculateAirDensity(rd.temp, rd.pressure, rd.humidity)),
             UseMemo(oldMemo.seaLevelPressure,
                     <<rd.pressure, rd.altitude, rd.temp>>,
                     calculateSeaLevelPressure(rd.pressure, rd.altitude,
                                               rd.temp)),
             UseMemo(oldMemo.eto,
                     <<rd.temp, rd.humidity, rd.windSpeed, rd.solarRadiation>>,
                     calculateETo(rd.temp, rd.humidity, rd.windSpeed,
                                  rd.solarRadiation)))

\* one render of Dashboard at tick t: the new memo cells and the view
Render(st, latest, realtime, oldMemo, t) ==
    Derive(t, CurrentData(realtime, latest), oldMemo,
           Readings(st, CurrentData(realtime, latest)))

\* the snapshots the server sends: MaxSnapshots different ones
MaxSnapshots == 1

Snapshot(i) ==
    [timestamp |-> "2025-02-14T10:0" \o ToString(i) \o ":00Z",
     data |-> [temperature    |-> Number((15 + 5 * i) * Scale),
               humidity       |-> Number((70 - 10 * i) * Scale),
               pressure       |-> Number((860 + i) * Scale),
               windSpeed      |-> Number(10 * i * Scale),
               windDirection  |-> Number(45 * i * Scale),
               windGust       |-> Number(12 * i * Scale),
               solarRadiation |-> Number(300 * i * Scale),
               uvIndex        |-> Number(i * Scale),
               rainfall       |-> Number(0)]]

\* a snapshot of a station with a failed humidity sensor and no radiation,
\* wind direction, gust, UV or rain sensor, the temperature sent as a string
PartialSnapshot ==
    [timestamp |-> "2025-02-14T10:09:00Z",
     data |-> [temperature |-> String(<<"2", "1", ".", "5">>),
               humidity    |-> NullReading,
               pressure    |-> Number(8601000),
               windSpeed   |-> Number(0)]]

Snapshots == { Snapshot(i) : i \in 1 .. MaxSnapshots } \cup {PartialSnapshot}

\* the station profiles api.getStation may deliver: one near Cape Town, one
\* on the equator at the Greenwich meridian, at sea level
Stations == { [latitude |-> -3392, longitude |-> 1842,
               altitude |-> 100 * Scale],
              [latitude |-> 0, longitude |-> 0, altitude |-> 0] }

\* the clock stops after MaxTicks ticks
MaxTicks == 2

\* the state of the calls of the single functions, unused by the dashboard
CallIdle == pc = "idle" /\ arg = <<>> /\ ret = "none"

\* the dashboard before it mounts, for the calls of the single functions
DashIdle ==
    /\ now = 0
    /\ station = NoObject
    /\ latestData = NoObject
    /\ realtimeData = NullObject
    /\ memo = NoMemo
    /\ view = NoObject
    /\ exported = NoObject

\* features.ts before the module is evaluated, for the specifications that
\* do not read the flags
FeatIdle ==
    /\ env = NoObject
    /\ features = NoObject
    /\ console = <<>>

\* a RealtimeConnection after its construction (useAuth.tsx 325-327)
ConnIdle ==
    /\ ws = 0
    /\ sockets = <<>>
    /\ reconnectTimer = Null
    /\ timers = <<>>
    /\ listeners = <<>>
    /\ received = <<>>
    /\ disconnected = FALSE

\* an empty localStorage
NoItems == [stratus_token |-> NullObject, stratus_user |-> NullObject]

\* the Login page as it mounts (Login.tsx 41-42), at the route /login
FreshPage ==
    [isLoading |-> FALSE, error |-> "", route |-> "/login",
     awaiting |-> FALSE, request |-> NoObject, result |-> NoObject]

\* AuthProvider and Login before anything has run (useAuth.tsx 27-28)
AuthIdle ==
    /\ storage = NoItems
    /\ user = NullObject
    /\ isLoading = TRUE
    /\ session = [pc |-> "mount"]
    /\ page = FreshPage

\* the dashboard after its first render: no query has data yet
Init ==
    /\ CallIdle
    /\ FeatIdle
    /\ ConnIdle
    /\ AuthIdle
    /\ now = 0
    /\ station = NoObject
    /\ latestData = NoObject
    /\ realtimeData = NullObject
    /\ \E r \in {Render(station, latestData, realtimeData, NoMemo, now)} :
          /\ memo = r.memo
          /\ view = r.view
    /\ exported = NoObject

\* React calls Dashboard again with the state the handler has just set
Rerender ==
    \E r \in {Render(station', latestData', realtimeData', memo, now)} :
        /\ memo' = r.memo
        /\ view' = r.view

\* the station query resolves; the component renders again
StationLoaded ==
    /\ station = NoObject
    /\ \E st \in Stations : station' = st
    /\ UNCHANGED <<latestData, realtimeData>>
    /\ Rerender
    /\ UNCHANGED <<now, exported>>
    /\ UNCHANGED callVars
    /\ UNCHANGED featVars
    /\ UNCHANGED connVars
    /\ UNCHANGED authVars

\* the latestData query (refetchInterval 60000) delivers a snapshot; the
\* component renders again
LatestDataFetched ==
    /\ \E snap \in Snapshots :
          /\ latestData # snap
          /\ latestData' = snap
    /\ UNCHANGED <<station, realtimeData>>
    /\ Rerender
    /\ UNCHANGED <<now, exported>>
    /\ UNCHANGED callVars
    /\ UNCHANGED featVars
    /\ UNCHANGED connVars
    /\ UNCHANGED authVars

\* connection.onData: setRealtimeData(data); the component renders again
RealtimeUpdate ==
    /\ \E snap \in Snapshots :
          /\ realtimeData # snap
          /\ realtimeData' = snap
    /\ UNCHANGED <<station, latestData>>
    /\ Rerender
    /\ UNCHANGED <<now, exported>>
    /\ UNCHANGED callVars
    /\ UNCHANGED featVars
    /\ UNCHANGED connVars
    /\ UNCHANGED authVars

\* time passes; nothing renders
Tick ==
    /\ now < MaxTicks
    /\ now' = now + 1
    /\ UNCHANGED <<station, latestData, realtimeData, memo, view, exported>>
    /\ UNCHANGED callVars
    /\ UNCHANGED featVars
    /\ UNCHANGED connVars
    /\ UNCHANGED authVars

\* handleExportPDF: the report holds the values of the last render
ExportPDF ==
    /\ exported' = [temperature |-> view.temperature,
                    humidity |-> view.humidity,
                    pressure |-> view.pressure,
                    windSpeed |-> view.windSpeed,
                    solarRadiation |-> view.solarRadiation,
                    windDirection |-> view.windDirection,
                    uvIndex |-> view.uvIndex,
                    rainfall |-> view.rainfall,
                    seaLevelPressure |-> view.seaLevelPressure,
                    airDensity |-> view.airDensity,
                    eto |-> view.eto,
                    ffdi |-> view.fireDanger.ffdi,
                    solarPosition |-> view.solarPosition]
    /\ UNCHANGED <<now, station, latestData, realtimeData, memo, view>>
    /\ UNCHANGED callVars
    /\ UNCHANGED featVars
    /\ UNCHANGED connVars
    /\ UNCHANGED authVars

Next ==
    \/ StationLoaded
    \/ LatestDataFetched
    \/ RealtimeUpdate
    \/ Tick
    \/ ExportPDF

Spec == Init /\ [][Next]_vars

\* ------------------------------------------------------------------------
\* Specification SpecGetValue: one call of getValue on a snapshot
\* ------------------------------------------------------------------------

\* the channels the dashboard reads through getValue
Channels == {"temperature", "humidity", "pressure", "windSpeed",
             "windDirection", "windGust", "solarRadiation", "rainfall",
             "uvIndex"}

NumberInputs == {0, -35000, 215000, 10000, 8652000}

\* strings a server may send, each with the number parseFloat makes of it
StringInputs ==
    { <<<<"2", "1", ".", "5">>, 215000>>,
      <<<<"0">>, 0>>,
      <<<<"-", "3", ".", "2">>, -32000>>,
      <<<<" ", "7">>, 70000>>,
      <<<<".", "5">>, 5000>>,
      <<<<"+", "4", ".">>, 40000>>,
      <<<<"1", "2", "a", "b", "c">>, 120000>>,
      <<<<"a", "b", "c">>, NaN>>,
      <<<<>>, NaN>>,
      <<<<"-">>, NaN>>,
      <<<<"n", "/", "a">>, NaN>>,
      <<<<"-", "-", "1">>, NaN>> }

ReadingInputs ==
    { Number(x) : x \in NumberInputs }
    \cup { String(p[1]) : p \in StringInputs }
    \cup { NullReading, NoReading }

\* a snapshot whose data holds the reading under the key (nothing for a
\* reading that is undefined)
SnapshotWith(key, reading) ==
    [timestamp |-> "2025-01-01T10:00:00Z",
     data |-> IF reading = NoReading THEN <<>> ELSE (key :> reading)]

InitGetValue ==
    /\ DashIdle
    /\ FeatIdle
    /\ ConnIdle
    /\ AuthIdle
    /\ pc = "ready"
    /\ arg \in [key : Channels, reading : ReadingInputs, loaded : {TRUE}]
               \cup [key : Channels, reading : {NoReading}, loaded : {FALSE}]
    /\ ret = "none"

CallGetValue ==
    /\ pc = "ready"
    /\ ret' = getValue(IF arg.loaded THEN SnapshotWith(arg.key, arg.reading)
                       ELSE NoObject, arg.key)
    /\ pc' = "done"
    /\ UNCHANGED arg
    /\ UNCHANGED dashVars
    /\ UNCHANGED featVars
    /\ UNCHANGED connVars
    /\ UNCHANGED authVars

NextGetValue == CallGetValue

SpecGetValue == InitGetValue /\ [][NextGetValue]_vars

\* ------------------------------------------------------------------------
\* Specification SpecWind: one call of getWindDirectionName
\* ------------------------------------------------------------------------

\* the inputs run over -MaxTurns .. MaxTurns whole turns around the rose
MaxTurns == 2

\* the grid of the inputs is 1.25 degrees (288 steps a turn), so that every
\* half-step boundary (11.25, 33.75, ...) and every compass point is an input
WindInputs == { k * 125 : k \in -(MaxTurns * 288) .. (MaxTurns * 288 + 288) }

InitWind ==
    /\ DashIdle
    /\ FeatIdle
    /\ ConnIdle
    /\ AuthIdle
    /\ pc = "ready"
    /\ arg \in { [degrees |-> d] : d \in WindInputs }
    /\ ret = "none"

CallWind ==
    /\ pc = "ready"
    /\ pc' = "done"
    /\ ret' = getWindDirectionName(arg.degrees)
    /\ UNCHANGED arg
    /\ UNCHANGED dashVars
    /\ UNCHANGED featVars
    /\ UNCHANGED connVars
    /\ UNCHANGED authVars

NextWind == CallWind

SpecWind == InitWind /\ [][NextWind]_vars

\* ------------------------------------------------------------------------
\* Specification SpecFire: one call of calculateFireDanger
\* ------------------------------------------------------------------------

\* temp runs over -10 .. 5 * MaxTemp degrees C in steps of 5
MaxTemp == 10

\* humidity runs over 0 .. 10 * MaxHumidity per cent in steps of 10
MaxHumidity == 11

\* windSpeed runs over -10 .. 10 * MaxWind km/h in steps of 10
MaxWind == 10

FireTemps == { 5 * k * Scale : k \in -2 .. MaxTemp }

FireHumidities == { 10 * k * Scale : k \in 0 .. MaxHumidity }

FireWinds == { 10 * k * Scale : k \in -1 .. MaxWind }

InitFire ==
    /\ DashIdle
    /\ FeatIdle
    /\ ConnIdle
    /\ AuthIdle
    /\ pc = "ready"
    /\ arg \in [temp : FireTemps, humidity : FireHumidities, windSpeed : FireWinds]
    /\ ret = "none"

CallFire ==
    /\ pc = "ready"
    /\ pc' = "done"
    /\ ret' = calculateFireDanger(arg.temp, arg.humidity, arg.windSpeed)
    /\ UNCHANGED arg
    /\ UNCHANGED dashVars
    /\ UNCHANGED featVars
    /\ UNCHANGED connVars
    /\ UNCHANGED authVars

NextFire == CallFire

SpecFire == InitFire /\ [][NextFire]_vars

\* ------------------------------------------------------------------------
\* Specification SpecETo: one call of calculateETo
\* ------------------------------------------------------------------------

\* solarRadiation runs over -100 .. 100 * MaxSolar W/m2 in steps of 100
MaxSolar == 10

EToSolars == { 100 * k * Scale : k \in -1 .. MaxSolar }

EToWinds == { 20 * k * Scale : k \in -1 .. 4 }

InitETo ==
    /\ DashIdle
    /\ FeatIdle
    /\ ConnIdle
    /\ AuthIdle
    /\ pc = "ready"
    /\ arg \in [temp : FireTemps, humidity : FireHumidities,
                windSpeed : EToWinds, solarRadiation : EToSolars]
    /\ ret = "none"

CallETo ==
    /\ pc = "ready"
    /\ pc' = "done"
    /\ ret' = calculateETo(arg.temp, arg.humidity, arg.windSpeed,
                           arg.solarRadiation)
    /\ UNCHANGED arg
    /\ UNCHANGED dashVars
    /\ UNCHANGED featVars
    /\ UNCHANGED connVars
    /\ UNCHANGED authVars

NextETo == CallETo

SpecETo == InitETo /\ [][NextETo]_vars

\* ------------------------------------------------------------------------
\* Specification SpecSolar: one call of calculateSolarPosition
\* ------------------------------------------------------------------------

\* the times of day run over 12:00, 14:00, .. in MaxSlots steps of two
\* hours, past midnight into the morning
MaxSlots == 11

\* latitudes: the poles, inside the polar circles, the default station, a
\* place the sun passes the zenith of, the equator, a tropic
SolarLats == { -9000, -8000, -2671, -1362, 0, 2345, 6700, 9000 }

SolarLons == { -18000, 0, 2710, 18000 }

\* 14 Feb, 22 Mar (declination 0), 21 Jun, 21 Dec
SolarDays == { 45, 81, 172, 355 }

SolarOffsets == { -120, 0 }

SolarDates == [dayOfYear : SolarDays,
               minutes   : { (720 + 120 * k) % 1440 : k \in 0 .. MaxSlots },
               tzOffset  : SolarOffsets]

InitSolar ==
    /\ DashIdle
    /\ FeatIdle
    /\ ConnIdle
    /\ AuthIdle
    /\ pc = "ready"
    /\ arg \in [lat : SolarLats, lon : SolarLons, date : SolarDates]
    /\ ret = "none"

CallSolar ==
    /\ pc = "ready"
    /\ pc' = "done"
    /\ ret' = calculateSolarPosition(arg.lat, arg.lon, arg.date)
    /\ UNCHANGED arg
    /\ UNCHANGED dashVars
    /\ UNCHANGED featVars
    /\ UNCHANGED connVars
    /\ UNCHANGED authVars

NextSolar == CallSolar

SpecSolar == InitSolar /\ [][NextSolar]_vars

\* ------------------------------------------------------------------------
\* Specification SpecFeatures: features.ts is evaluated once, when the
\* bundle loads, in an environment fixed by the build
\* ------------------------------------------------------------------------

\* import.meta.env.VITE_READ_ONLY === 'true', from a deployment variable
\* instead: read-only exactly when deployed to Netlify
isReadOnlyMode_netlify(e) == e.VITE_DEPLOYMENT = String("netlify")

\* import.meta.env.VITE_READ_ONLY === 'true'
isReadOnlyMode(e) == e.VITE_READ_ONLY = String("true")

\* import.meta.env.VITE_DEPLOYMENT === 'netlify'
isNetlifyDeployment(e) == e.VITE_DEPLOYMENT = String("netlify")

ViewFlags == {"canViewDashboard", "canViewData", "canViewCharts",
              "canExportData"}

AdminFlags == {"canEditStations", "canAddStations", "canDeleteStations",
               "canConfigureSettings", "canManageUsers", "canDeleteData",
               "canSetupStations", "canManageAlarms"}

UiFlags == {"showAdminMenu", "showSetupWizard", "showSettingsPage",
            "showEditButtons", "showDeleteButtons"}

\* the object literal of features.ts
FeaturesOf(readOnly) ==
    [canViewDashboard |-> TRUE,
     canViewData |-> TRUE,
     canViewCharts |-> TRUE,
     canExportData |-> TRUE,
     canEditStations |-> ~readOnly,
     canAddStations |-> ~readOnly,
     canDeleteStations |-> ~readOnly,
     canConfigureSettings |-> ~readOnly,
     canManageUsers |-> ~readOnly,
     canDeleteData |-> ~readOnly,
     canSetupStations |-> ~readOnly,
     canManageAlarms |-> ~readOnly,
     showAdminMenu |-> ~readOnly,
     showSetupWizard |-> ~readOnly,
     showSettingsPage |-> ~readOnly,
     showEditButtons |-> ~readOnly,
     showDeleteButtons |-> ~readOnly]

\* the three lines logged in development
FeatureLog(e, flags) ==
    IF e.DEV
        THEN << <<"[Features] Read-only mode:", isReadOnlyMode(e)>>,
                <<"[Features] Netlify deployment:", isNetlifyDeployment(e)>>,
                <<"[Features] Available features:", flags>> >>
    ELSE <<>>

\* values of a VITE_ variable: unset, or the string given to the build
ReadOnlyValues ==
    {NoReading} \cup {String(v) : v \in {"true", "false", "TRUE", "1", "", "yes"}}

DeploymentValues ==
    {NoReading}
        \cup {String(v) : v \in {"netlify", "railway", "desktop", "Netlify", ""}}

Environments ==
    [VITE_READ_ONLY : ReadOnlyValues, VITE_DEPLOYMENT : DeploymentValues,
     DEV : BOOLEAN]

InitFeatures ==
    /\ CallIdle
    /\ DashIdle
    /\ ConnIdle
    /\ AuthIdle
    /\ env \in Environments
    /\ features = NoObject
    /\ console = <<>>

\* the module body of features.ts
LoadFeatures ==
    /\ features = NoObject
    /\ features' = FeaturesOf(isReadOnlyMode(env))
    /\ console' = FeatureLog(env, features')
    /\ UNCHANGED env
    /\ UNCHANGED callVars
    /\ UNCHANGED dashVars
    /\ UNCHANGED connVars
    /\ UNCHANGED authVars

NextFeatures == LoadFeatures

SpecFeatures == InitFeatures /\ [][NextFeatures]_vars

\* ------------------------------------------------------------------------
\* Specification SpecRealtime: the RealtimeConnection of the Dashboard
\* effect (useAuth.tsx 324-377, Dashboard.tsx 633-645).  The browser
\* delivers the events of a socket and the timers one at a time.
\* ------------------------------------------------------------------------

\* WebSockets one connection constructs in a behaviour of the model
MaxSockets == 3

\* the delay of the reconnect, in seconds (setTimeout(..., 5000))
ReconnectDelay == 5

\* the frames the server sends: a weather_update with data 1 or 2, a
\* message of another type, text that is not JSON
Messages ==
    {[type |-> "weather_update", data |-> 1],
     [type |-> "weather_update", data |-> 2],
     [type |-> "pong", data |-> 0],
     [type |-> "malformed", data |-> 0]}

Pending(ts) == {t \in DOMAIN ts : ts[t].state = "pending"}

\* the sockets after new WebSocket(...): the new one is CONNECTING
Constructed(socks) == Append(socks, [readyState |-> "CONNECTING", sent |-> <<>>])

\* connect(): this.ws = new WebSocket(...), with the four handlers
connect ==
    /\ Len(sockets) < MaxSockets
    /\ sockets' = Constructed(sockets)
    /\ ws' = Len(sockets) + 1

\* socket.close(): CONNECTING and OPEN become CLOSING, else nothing
Closed(socks, i) ==
    IF i # 0 /\ socks[i].readyState \in {"CONNECTING", "OPEN"}
        THEN [socks EXCEPT ![i].readyState = "CLOSING"]
    ELSE socks

\* clearTimeout(id): a pending timer is cancelled, else nothing
Cleared(ts, id) ==
    IF id # Null /\ ts[id].state = "pending"
        THEN [ts EXCEPT ![id].state = "cleared"]
    ELSE ts

\* socket.send(text) on the socket i: queued when the socket is OPEN; it
\* throws when CONNECTING and is dropped when CLOSING or CLOSED
Sent(socks, i, text) ==
    IF i # 0 /\ socks[i].readyState = "OPEN"
        THEN [socks EXCEPT ![i].sent = Append(@, text)]
    ELSE socks

\* window.setTimeout(() => this.connect(), 5000), called twice
Scheduled_twice(ts) ==
    Append(Append(ts, [state |-> "pending", remaining |-> ReconnectDelay]),
           [state |-> "pending", remaining |-> ReconnectDelay])

\* window.setTimeout(() => this.connect(), 5000): one more pending timer
Scheduled(ts) == Append(ts, [state |-> "pending", remaining |-> ReconnectDelay])

\* this.listeners.forEach(listener => listener(data)): the calls, in the
\* order of the array
Called(ls, data) == [k \in DOMAIN ls |-> <<ls[k], data>>]

\* this.listeners.filter(l => l !== listener)
Filtered(ls, listener) == SelectSeq(ls, LAMBDA l : l # listener)

\* disconnect(): the reconnect timer is cleared, the socket closed and
\* forgotten
disconnect ==
    /\ timers' = Cleared(timers, reconnectTimer)
    /\ sockets' = Closed(sockets, ws)
    /\ ws' = 0

\* the effect of the Dashboard: new RealtimeConnection(), connect(),
\* onData(setRealtimeData)
Mount ==
    /\ sockets = <<>>
    /\ ~disconnected
    /\ connect
    /\ listeners' = Append(listeners, "setRealtimeData")
    /\ UNCHANGED <<reconnectTimer, timers, received, disconnected>>
    /\ UNCHANGED <<callVars, dashVars, featVars, authVars>>

\* the cleanup of the effect: unsubscribe(), then disconnect()
Unmount ==
    /\ sockets # <<>>
    /\ ~disconnected
    /\ listeners' = Filtered(listeners, "setRealtimeData")
    /\ disconnect
    /\ disconnected' = TRUE
    /\ UNCHANGED <<reconnectTimer, received>>
    /\ UNCHANGED <<callVars, dashVars, featVars, authVars>>

\* the open event of the socket i: onopen sends on this.ws
OpenEvent(i) ==
    /\ sockets[i].readyState = "CONNECTING"
    /\ sockets' = Sent([sockets EXCEPT ![i].readyState = "OPEN"], ws,
                       "subscribe_client")
    /\ UNCHANGED <<ws, reconnectTimer, timers, listeners, received,
                   disconnected>>
    /\ UNCHANGED <<callVars, dashVars, featVars, authVars>>

\* a message event of the socket i: onmessage calls every listener with the
\* data of a weather_update
MessageEvent(i, message) ==
    /\ sockets[i].readyState = "OPEN"
    /\ received' = IF message.type = "weather_update"
                       THEN Called(listeners, message.data)
                   ELSE received
    /\ UNCHANGED <<ws, sockets, reconnectTimer, timers, listeners,
                   disconnected>>
    /\ UNCHANGED <<callVars, dashVars, featVars, authVars>>

\* the close event of the socket i (the connection failed or was lost, or
\* close() has completed): onclose sets the reconnect timer
CloseEvent(i) ==
    /\ sockets[i].readyState # "CLOSED"
    /\ sockets' = [sockets EXCEPT ![i].readyState = "CLOSED"]
    /\ timers' = Scheduled(timers)
    /\ reconnectTimer' = Len(timers')
    /\ UNCHANGED <<ws, listeners, received, disconnected>>
    /\ UNCHANGED <<callVars, dashVars, featVars, authVars>>

\* a second passes while no timer is due
Second ==
    /\ Pending(timers) # {}
    /\ \A t \in Pending(timers) : timers[t].remaining > 0
    /\ timers' = [t \in DOMAIN timers |->
                      IF t \in Pending(timers)
                          THEN [timers[t] EXCEPT !.remaining = @ - 1]
                      ELSE timers[t]]
    /\ UNCHANGED <<ws, sockets, reconnectTimer, listeners, received,
                   disconnected>>
    /\ UNCHANGED <<callVars, dashVars, featVars, authVars>>

\* the timer t is due: its callback calls connect()
TimerFires(t) ==
    /\ timers[t].state = "pending"
    /\ timers[t].remaining = 0
    /\ timers' = [timers EXCEPT ![t].state = "fired"]
    /\ connect
    /\ UNCHANGED <<reconnectTimer, listeners, received, disconnected>>
    /\ UNCHANGED <<callVars, dashVars, featVars, authVars>>

InitRealtime ==
    /\ CallIdle
    /\ DashIdle
    /\ FeatIdle
    /\ ConnIdle
    /\ AuthIdle

NextRealtime ==
    \/ Mount
    \/ Unmount
    \/ \E i \in DOMAIN sockets : OpenEvent(i)
    \/ \E i \in DOMAIN sockets : \E message \in Messages : MessageEvent(i, message)
    \/ \E i \in DOMAIN sockets : CloseEvent(i)
    \/ Second
    \/ \E t \in DOMAIN timers : TimerFires(t)

SpecRealtime == InitRealtime /\ [][NextRealtime]_vars

\* the event loop of the browser runs: time passes, and a timer that is due
\* runs its callback
SpecRealtimeFair ==
    /\ SpecRealtime
    /\ WF_vars(Second)
    /\ WF_vars(\E t \in DOMAIN timers : TimerFires(t))

\* ------------------------------------------------------------------------
\* Specifications SpecConnection and SpecListeners: a RealtimeConnection
\* whose methods are called in any order by the code that holds it
\* (useAuth.tsx 324-377), with the events of its sockets and timers.
\* ------------------------------------------------------------------------

\* registrations one connection holds at a time in a behaviour of the model
MaxListeners == 2

\* the functions the callers pass to onData
Listeners == {"setRealtimeData", "log"}

\* connect(), called by the holder of the connection
ConnectCall ==
    /\ connect
    /\ disconnected' = FALSE
    /\ UNCHANGED <<reconnectTimer, timers, listeners, received>>
    /\ UNCHANGED <<callVars, dashVars, featVars, authVars>>

\* disconnect(), called by the holder of the connection
DisconnectCall ==
    /\ sockets # <<>>
    /\ disconnect
    /\ disconnected' = TRUE
    /\ UNCHANGED <<reconnectTimer, listeners, received>>
    /\ UNCHANGED <<callVars, dashVars, featVars, authVars>>

\* onData(listener): the listener is pushed
OnData(listener) ==
    /\ Len(listeners) < MaxListeners
    /\ listeners' = Append(listeners, listener)
    /\ UNCHANGED <<ws, sockets, reconnectTimer, timers, received, disconnected>>
    /\ UNCHANGED <<callVars, dashVars, featVars, authVars>>

\* the function onData(listener) returned is called
Unsubscribe(listener) ==
    /\ \E k \in DOMAIN listeners : listeners[k] = listener
    /\ listeners' = Filtered(listeners, listener)
    /\ UNCHANGED <<ws, sockets, reconnectTimer, timers, received, disconnected>>
    /\ UNCHANGED <<callVars, dashVars, featVars, authVars>>

\* the holder connects and disconnects at any time, between the events of
\* the sockets and the timers
NextConnection ==
    \/ ConnectCall
    \/ DisconnectCall
    \/ \E i \in DOMAIN sockets : OpenEvent(i)
    \/ \E i \in DOMAIN sockets : CloseEvent(i)
    \/ Second
    \/ \E t \in DOMAIN timers : TimerFires(t)

SpecConnection == InitRealtime /\ [][NextConnection]_vars

\* listeners come and go while the sockets of the connection receive
\* messages
NextListeners ==
    \/ ConnectCall
    \/ \E listener \in Listeners : OnData(listener)
    \/ \E listener \in Listeners : Unsubscribe(listener)
    \/ \E i \in DOMAIN sockets : OpenEvent(i)
    \/ \E i \in DOMAIN sockets : \E message \in Messages : MessageEvent(i, message)

SpecListeners == InitRealtime /\ [][NextListeners]_vars

\* ------------------------------------------------------------------------
\* Specification SpecAuth: AuthProvider (useAuth.tsx 26-87), the requests of
\* api.login and api.verifyToken (199-248) and the Login form (Login.tsx
\* 100-114).  A request settles at any later time, with any outcome.
\* ------------------------------------------------------------------------

\* a settled promise
Resolved(v) == [kind |-> "resolved", value |-> v]

Rejected(m) == [kind |-> "rejected", message |-> m]

\* what fetch can end with: a network error, or a response with a status
\* and a body that is JSON text or not
NetworkError == [kind |-> "network"]

Response(status, body) == [kind |-> "response", status |-> status, body |-> body]

Json(v) == [kind |-> "json", value |-> v]

NotJson == [kind |-> "text"]

\* response.ok
Ok(status) == status >= 200 /\ status <= 299

\* a || b for two strings
OrText(a, b) == IF a = "" THEN b ELSE a

\* JSON.stringify(user), and a stored text that is not JSON
Stringify(u) == [kind |-> "json", value |-> u]

\* JSON.parse(text) throws
Unparsable(text) == text.kind # "json"

\* JSON.parse(text)
JSONparse(text) == text.value

\* the bodies of the verify endpoint: {valid: true}, {valid: false}, an
\* object without valid, null, and text that is not JSON
VerifyBodies ==
    {Json([valid |-> TRUE]), Json([valid |-> FALSE]),
     Json([error |-> "Unauthorized"]), Json(NullObject), NotJson}

VerifyOutcomes ==
    {NetworkError} \cup {Response(st, b) : st \in {200, 401, 500}, b \in VerifyBodies}

\* the message of the Error safeFetch throws (useAuth.tsx 161-166)
Unreachable == "Unable to connect to server. Please check: ..."

\* the user and the token of a successful login
NewUser == [id |-> "u1", email |-> "client@example.com"]

NewToken == String("t1")

\* a login body {success, user?, token?, error?}: a missing user or token is
\* NoObject, a missing error the empty string
LoginBody(success, u, token, error) ==
    Json([success |-> success, user |-> u, token |-> token, error |-> error])

LoginBodies ==
    {LoginBody(TRUE, NewUser, NewToken, ""),
     LoginBody(TRUE, NoObject, NewToken, ""),
     LoginBody(TRUE, NewUser, NoObject, ""),
     LoginBody(FALSE, NoObject, NoObject, "Account disabled"),
     LoginBody(FALSE, NoObject, NoObject, ""),
     LoginBody(FALSE, NewUser, NewToken, ""),
     Json(NullObject),
     NotJson}

LoginOutcomes ==
    {NetworkError}
        \cup {Response(200, b) : b \in LoginBodies}
        \cup {Response(st, NotJson) : st \in {400, 401, 404, 500, 503}}

\* the message for a response that is not OK (useAuth.tsx 213-223)
StatusMessage(status) ==
    IF status = 401 THEN "Invalid email or password"
    ELSE IF status = 404
        THEN "Server endpoint not found. Please contact support."
    ELSE IF status >= 500 THEN "Server error. Please try again later."
    ELSE "Login failed (" \o ToString(status) \o ")"

\* response.json(): a promise that rejects for a body that is not JSON
ResponseJson(body) ==
    IF body.kind = "json" THEN Resolved(body.value)
    ELSE Rejected("Unexpected token < in JSON at position 0")

\* api.login: the promise it returns.  return response.json() hands the
\* promise of json() on without awaiting it, so its rejection is not caught
\* by the catch of api.login
apiLogin(o) ==
    IF o.kind = "network"
        THEN Resolved([success |-> FALSE, user |-> NoObject,
                       token |-> NoObject, error |-> Unreachable])
    ELSE IF ~Ok(o.status)
        THEN Resolved([success |-> FALSE, user |-> NoObject,
                       token |-> NoObject, error |-> StatusMessage(o.status)])
    ELSE ResponseJson(o.body)

\* api.verifyToken: the promise it returns; the status is not looked at
apiVerifyToken(o) ==
    IF o.kind = "network" THEN Resolved([valid |-> FALSE])
    ELSE ResponseJson(o.body)

\* what login does after the await: whether it stores the session, and the
\* promise it returns
Failed(error) ==
    [store |-> FALSE, promise |-> Resolved([success |-> FALSE, error |-> error])]

Stored == [store |-> TRUE, promise |-> Resolved([success |-> TRUE, error |-> ""])]

\* the TypeError of response.success for a null response
NullSuccess == "Cannot read properties of null (reading 'success')"

\* login without its try / catch: the rejection of api.login and the
\* TypeError reach the caller
login_uncaught(r) ==
    IF r.kind = "rejected" THEN [store |-> FALSE, promise |-> r]
    ELSE IF r.value = NullObject
        THEN [store |-> FALSE, promise |-> Rejected(NullSuccess)]
    ELSE IF r.value.success /\ r.value.user # NoObject /\ r.value.token # NoObject
        THEN Stored
    ELSE Failed(OrText(r.value.error, "Login failed"))

\* login that stores the session whenever the response has success true
login_lenient(r) ==
    IF r.kind = "rejected" THEN Failed(OrText(r.message, "Network error"))
    ELSE IF r.value = NullObject THEN Failed(NullSuccess)
    ELSE IF r.value.success THEN Stored
    ELSE Failed(OrText(r.value.error, "Login failed"))

\* AuthProvider.login after api.login has settled with r (useAuth.tsx 59-74)
login(r) ==
    IF r.kind = "rejected" THEN Failed(OrText(r.message, "Network error"))
    ELSE IF r.value = NullObject THEN Failed(NullSuccess)
    ELSE IF r.value.success /\ r.value.user # NoObject /\ r.value.token # NoObject
        THEN Stored
    ELSE Failed(OrText(r.value.error, "Login failed"))

\* response.valid of a verify response: undefined is falsy
Valid(v) == IF "valid" \in DOMAIN v THEN v.valid ELSE FALSE

\* checkSession restores the saved user whatever the server answers
Restores_unverified(r, savedUser) == ~Unparsable(savedUser)

\* checkSession sets the user: verifyToken resolved, response.valid is
\* truthy and JSON.parse(savedUser) does not throw (useAuth.tsx 36-41)
Restores(r, savedUser) ==
    /\ r.kind = "resolved"
    /\ r.value # NullObject
    /\ Valid(r.value)
    /\ ~Unparsable(savedUser)

\* checkSession with setIsLoading(false) in the branch of a valid token only
checkSession_validOnly(r, savedUser) ==
    [restore |-> Restores(r, savedUser), isLoading |-> ~Restores(r, savedUser)]

\* checkSession after the await, given the promise of verifyToken: whether
\* it restores the user or clears the storage, and setIsLoading(false)
checkSession(r, savedUser) ==
    [restore |-> Restores(r, savedUser), isLoading |-> FALSE]

\* the user of an earlier session, and its token
SavedUser == [id |-> "u0", email |-> "client@example.com"]

SavedToken == String("t0")

\* localStorage when the page loads: empty, a saved session, a saved session
\* whose user text is damaged, and one key without the other
StoredAtLoad ==
    {NoItems,
     [stratus_token |-> SavedToken, stratus_user |-> Stringify(SavedUser)],
     [stratus_token |-> SavedToken, stratus_user |-> NotJson],
     [stratus_token |-> SavedToken, stratus_user |-> NullObject],
     [stratus_token |-> NullObject, stratus_user |-> Stringify(SavedUser)]}

InitAuth ==
    /\ CallIdle
    /\ DashIdle
    /\ FeatIdle
    /\ ConnIdle
    /\ storage \in StoredAtLoad
    /\ user = NullObject
    /\ isLoading = TRUE
    /\ session = [pc |-> "mount"]
    /\ page = FreshPage

\* checkSession up to its await: with both items stored it calls
\* api.verifyToken(token), else it ends with setIsLoading(false)
CheckSessionStarts ==
    /\ session.pc = "mount"
    /\ IF storage.stratus_token # NullObject /\ storage.stratus_user # NullObject
           THEN /\ session' = [pc |-> "verifying",
                               token |-> storage.stratus_token,
                               savedUser |-> storage.stratus_user]
                /\ UNCHANGED isLoading
       ELSE /\ session' = [pc |-> "done"]
            /\ isLoading' = FALSE
    /\ UNCHANGED <<storage, user, page>>
    /\ UNCHANGED <<callVars, dashVars, featVars, connVars>>

\* the verify request settles with o and checkSession runs to its end
VerifySettles(o) ==
    /\ session.pc = "verifying"
    /\ session' = [pc |-> "done", token |-> session.token,
                    savedUser |-> session.savedUser, response |-> o]
    /\ \E done \in {checkSession(apiVerifyToken(o), session.savedUser)} :
          /\ IF done.restore
                 THEN /\ user' = JSONparse(session.savedUser)
                      /\ UNCHANGED storage
             ELSE /\ storage' = NoItems
                  /\ UNCHANGED user
          /\ isLoading' = done.isLoading
    /\ UNCHANGED page
    /\ UNCHANGED <<callVars, dashVars, featVars, connVars>>

\* handleSubmit up to its await: setError(''), setIsLoading(true),
\* login(email, password); the button is disabled while isLoading.  React
\* runs the effects of the first render before it handles an event.
Submit ==
    /\ session.pc # "mount"
    /\ page.route = "/login"
    /\ ~page.isLoading
    /\ page' = [page EXCEPT !.error = "", !.isLoading = TRUE,
                            !.awaiting = TRUE]
    /\ UNCHANGED <<storage, user, isLoading, session>>
    /\ UNCHANGED <<callVars, dashVars, featVars, connVars>>

\* handleSubmit after the await, given the promise of login: a rejection
\* ends handleSubmit before setIsLoading(false)
Submitted(pg, promise) ==
    IF promise.kind = "rejected" THEN [pg EXCEPT !.result = promise]
    ELSE IF promise.value.success
        THEN [pg EXCEPT !.result = promise, !.route = "/dashboard",
                        !.isLoading = FALSE]
    ELSE [pg EXCEPT !.result = promise, !.isLoading = FALSE,
                    !.error = OrText(promise.value.error, "Login failed")]

\* what login stores from the response r
Session(r) ==
    [stratus_token |-> r.value.token, stratus_user |-> Stringify(r.value.user)]

\* the login request settles with o; login and then handleSubmit run to
\* their ends
LoginSettles(o) ==
    /\ page.awaiting
    /\ \E done \in {login(apiLogin(o))} :
          /\ IF done.store
                 THEN /\ storage' = Session(apiLogin(o))
                      /\ user' = apiLogin(o).value.user
             ELSE UNCHANGED <<storage, user>>
          /\ page' = Submitted([page EXCEPT !.awaiting = FALSE, !.request = o],
                                done.promise)
    /\ UNCHANGED <<isLoading, session>>
    /\ UNCHANGED <<callVars, dashVars, featVars, connVars>>

\* logout (useAuth.tsx 76-80)
Logout ==
    /\ session.pc # "mount"
    /\ storage' = NoItems
    /\ user' = NullObject
    /\ UNCHANGED <<isLoading, session, page>>
    /\ UNCHANGED <<callVars, dashVars, featVars, connVars>>

NextAuth ==
    \/ CheckSessionStarts
    \/ \E o \in VerifyOutcomes : VerifySettles(o)
    \/ Submit
    \/ \E o \in LoginOutcomes : LoginSettles(o)
    \/ Logout

SpecAuth == InitAuth /\ [][NextAuth]_vars

\* the effect runs after the first render, and a request that was sent
\* settles
SpecAuthFair ==
    /\ SpecAuth
    /\ WF_vars(CheckSessionStarts)
    /\ WF_vars(\E o \in VerifyOutcomes : VerifySettles(o))
    /\ WF_vars(\E o \in LoginOutcomes : LoginSettles(o))

\* ------------------------------------------------------------------------
\* Specification SpecApi: one call of api.getStation, api.getLatestData or
\* api.getHistoricalData (useAuth.tsx 253-293) whose request ends with a
\* given outcome
\* ------------------------------------------------------------------------

\* the empty array
EmptyArray == [kind |-> "array", items |-> <<>>]

\* what the function returns when it gives up: null, null and []
Fallback(fn) == IF fn = "getHistoricalData" THEN EmptyArray ELSE NullObject

\* a body with no bytes, for which response.json() rejects as well
EmptyBody == [kind |-> "empty"]

\* the three functions have the same body: await fetch; if (!response.ok)
\* return the fallback; return response.json(), which is not awaited, so its
\* rejection passes the catch
apiGet(fn, o) ==
    IF o.kind = "network" THEN Resolved(Fallback(fn))
    ELSE IF ~Ok(o.status) THEN Resolved(Fallback(fn))
    ELSE ResponseJson(o.body)

ApiBodies ==
    {Json([id |-> 7, name |-> "payload"]), Json(NullObject), NotJson, EmptyBody}

ApiOutcomes ==
    {NetworkError}
        \cup {Response(st, b) : st \in {200, 204, 304, 401, 403, 404, 500, 503},
                               b \in ApiBodies}

InitApi ==
    /\ DashIdle
    /\ FeatIdle
    /\ ConnIdle
    /\ AuthIdle
    /\ pc = "ready"
    /\ arg \in [fn : {"getStation", "getLatestData", "getHistoricalData"},
                outcome : ApiOutcomes]
    /\ ret = "none"

CallApi ==
    /\ pc = "ready"
    /\ pc' = "done"
    /\ ret' = apiGet(arg.fn, arg.outcome)
    /\ UNCHANGED arg
    /\ UNCHANGED dashVars
    /\ UNCHANGED featVars
    /\ UNCHANGED connVars
    /\ UNCHANGED authVars

NextApi == CallApi

SpecApi == InitApi /\ [][NextApi]_vars

Labels == { directions[i] : i \in 1..16 }

FireLevels == <<"Low-Moderate", "High", "Very High", "Severe", "Extreme",
                "Catastrophic">>

FireColors == <<"#22c55e", "#eab308", "#f97316", "#ef4444", "#dc2626",
                "#7f1d1d">>

FireThresholds == { 12 * Scale, 25 * Scale, 50 * Scale, 75 * Scale, 100 * Scale }

C5_SolarRanges ==
    pc = "done" =>
        /\ ~IsNaN(ret.elevation)
        /\ ret.elevation >= -9000
        /\ ret.azimuth >= 0
        /\ ret.azimuth < 36000

\* the clamp of x to [-1, 1], written out
Clamped(x) == IF x > Scale THEN Scale ELSE IF x < -Scale THEN -Scale ELSE x

\* C6: the value passed to acos is -tan(lat)*tan(dec) clamped to [-1, 1], the
\* hour angle lies in [0, 180] degrees, and sunrise, sunset and dayLength are
\* never NaN, also where the unclamped value is outside [-1, 1].
C6_HourAngleClamped ==
    pc = "done" =>
        LET cosHA == CosHA(arg.lat, arg.date.dayOfYear)
            h     == Acos(HourAngleCos(cosHA))
        IN  /\ HourAngleCos(cosHA) = Clamped(cosHA)
            /\ ~IsNaN(h)
            /\ h >= 0
            /\ h <= 18000
            /\ ~IsNaN(ret.sunrise)
            /\ ~IsNaN(ret.sunset)
            /\ ~IsNaN(ret.dayLength)

\* polar day: the unclamped value is below -1 and the day lasts 24 hours
C6_Witness ==
    /\ pc = "done"
    /\ CosHA(arg.lat, arg.date.dayOfYear) < -Scale
    /\ ret.dayLength = 1440 * Scale

C8_NeverNegative ==
    pc = "done" =>
        /\ ~IsNaN(ret)
        /\ ret >= 0
        /\ EToRaw(arg.temp, arg.humidity, arg.windSpeed, arg.solarRadiation) < 0
              => ret = 0
        /\ (arg.humidity = 100 * Scale /\ arg.windSpeed = 0
              /\ arg.solarRadiation = 0) => ret = 0

C8_Witness ==
    /\ pc = "done"
    /\ EToRaw(arg.temp, arg.humidity, arg.windSpeed, arg.solarRadiation) < 0
    /\ arg.humidity <= 100 * Scale
    /\ arg.windSpeed >= 0
    /\ ret = 0

\* C10: what the dashboard displays, and copies into the PDF report, is every
\* derived metric, the solar position included, computed for the current
\* data and for the time of the render that the last snapshot caused:
\* nothing computed at an earlier tick is reused.
C10_RecomputedOnSnapshot ==
    view = Render(station, latestData, realtimeData, NoMemo, view.at).view

\* C2: for every degrees value, negative ones and those of 360 or more
\* included, getWindDirectionName returns one of the 16 compass labels.
C2_AlwaysALabel == pc = "done" => ret \in Labels

\* C3: getWindDirectionName(d) = getWindDirectionName(d + 360*k) for every
\* degrees value d and every integer k.
C3_WholeTurns ==
    pc = "done" =>
        \A k \in -MaxTurns .. MaxTurns :
            getWindDirectionName(arg.degrees + k * 360 * DegUnit) = ret

\* the circular distance, in hundredths of a degree, from compass point i
\* (at 22.5 * i degrees) clockwise to d, shifted by half a step
OffsetFrom(i, d) == (d - 2250 * i + 1125) % (360 * DegUnit)

\* C4: for 0 <= d < 360 the label is the compass point nearest to d: d lies
\* in the half-open sector [point - 11.25, point + 11.25), so that a
\* half-step boundary goes to the next clockwise label and [348.75, 360)
\* wraps back to N.
C4_NearestPoint ==
    (pc = "done" /\ arg.degrees >= 0 /\ arg.degrees < 360 * DegUnit) =>
        \E i \in 0..15 :
            /\ ret = directions[i + 1]
            /\ OffsetFrom(i, arg.degrees) < 2250

C4_Witness ==
    /\ pc = "done"
    /\ arg.degrees = 34875
    /\ ret = "N"

\* the number a reading of the inputs stands for: its value, or what
\* parseFloat makes of the string (NaN for none); NaN for null and undefined
ReadingNumber(reading) ==
    IF reading.kind = "number" THEN reading.num
    ELSE IF reading.kind = "string"
        THEN (CHOOSE p \in StringInputs : p[1] = reading.str)[2]
    ELSE NaN

\* C11: a channel whose reading is null, undefined or unparsable is never
\* resolved to the number 0 by getValue, for every channel the dashboard
\* reads.
C11_UnknownNeverZero ==
    (pc = "done" /\ IsNaN(ReadingNumber(arg.reading))) => ret # 0

\* C12: getValue returns a reading that is a number (0 and negative numbers
\* included) or a string that parses to a number as that number, and
\* substitutes the fallback of the channel only for a reading that is null,
\* undefined or a non-numeric string.
C12_FallbackOnlyWhenUnknown ==
    pc = "done" =>
        IF IsNaN(ReadingNumber(arg.reading))
            THEN ret = OrElse(demoValues(arg.key), 0)
        ELSE ret = ReadingNumber(arg.reading)

C12_Witness ==
    /\ pc = "done"
    /\ arg.key = "temperature"
    /\ arg.reading = Number(0)
    /\ ret = 0

\* the value on the screen for a channel is a fallback: the current data
\* has no usable reading of it
FallbackShown(key) ==
    LET val == ValueOf(CurrentData(realtimeData, latestData), key)
    IN  \/ val.kind \in {"null", "undefined"}
        \/ val.kind = "string" /\ IsNaN(parseFloat(val.str))

\* C13: in every state of the dashboard, when a displayed value is a
\* fallback constant and not a reading of the current snapshot, the status
\* bar shows 'Demo data' and not the timestamp of a snapshot.
C13_DemoIndicator ==
    (\E key \in Channels : FallbackShown(key)) => view.lastUpdate = "Demo data"

\* the coordinate f that the profile supplies, the default d when the
\* profile is not loaded or does not hold f
Supplied(f, d) ==
    IF StationField(station, f) = Undefined THEN d
    ELSE StationField(station, f)

\* C14: the derivations get the coordinates the station profile supplies,
\* latitude 0, longitude 0 and altitude 0 included, and the default
\* location (-26.7145, 27.0970, 1351 m) only for a coordinate that the
\* profile does not supply.
C14_DefaultLocation ==
    /\ memo.solarPosition.deps =
           <<Supplied("latitude", -2671), Supplied("longitude", 2710)>>
    /\ memo.seaLevelPressure.deps[2] = Supplied("altitude", 1351 * Scale)

\* the screen shows the snapshot snap: its timestamp and its readings
Shows(snap) ==
    /\ view.lastUpdate = DateString(snap.timestamp)
    /\ \A key \in Channels : view[key] = getValue(snap, key)
    /\ view.airDensity =
           calculateAirDensity(getValue(snap, "temperature"),
                               getValue(snap, "pressure"),
                               getValue(snap, "humidity"))

Saturation(temp) == Mul(6108, Exp(Div(Mul(172700, temp), temp + 2373000)))

\* calculateETo from a saturation vapour pressure es: the actual vapour
\* pressure is es * humidity / 100
EToFrom(es, in) ==
    MaxN(0, EToWith(in.temp, in.humidity, es, Div(in.windSpeed, 36000),
                    Mul(in.solarRadiation, 36)))

\* es (kPa) and the saturation vapour pressure pa (Pa) of
\* calculateAirDensity are within 0.5 % of each other
Close(es, pa) == Abs(1000 * es - pa) * 200 <= pa

\* C15 as claimed: for every temperature calculateETo and
\* calculateAirDensity compute the same saturation vapour pressure,
\* 611.21 * exp(17.502 T / (240.97 + T)) Pa, up to the factor 1000 between
\* Pa and kPa.
C15_SameSaturation ==
    pc = "done" => 1000 * EToEs(arg.temp) = AirEs(arg.temp)

\* C15 amended: calculateETo computes the saturation vapour pressure as
\* 0.6108 * exp(17.27 T / (T + 237.3)) kPa and the actual one as
\* saturation * humidity / 100; this saturation pressure is within 0.5 % of
\* the one of calculateAirDensity.
C15_FaoSaturation ==
    pc = "done"
        => /\ ret = EToFrom(Saturation(arg.temp), arg)
           /\ Close(Saturation(arg.temp), AirEs(arg.temp))

C15_Witness ==
    /\ pc = "done"
    /\ arg.temp = 0
    /\ arg.humidity = 50 * Scale
    /\ arg.windSpeed > 0
    /\ ret > 0
    /\ ret = EToFrom(6108, arg)
    /\ AirEs(arg.temp) = 6112100

\* C16: when VITE_READ_ONLY is 'true', every admin flag and every UI flag
\* of the features object is false; the four viewing flags are true whatever
\* the environment.
C16_ReadOnlyFlags ==
    features # NoObject
        => /\ env.VITE_READ_ONLY = String("true")
                  => \A f \in AdminFlags \cup UiFlags : features[f] = FALSE
           /\ \A f \in ViewFlags : features[f] = TRUE

C16_Witness ==
    /\ features # NoObject
    /\ env.VITE_READ_ONLY = String("true")
    /\ env.VITE_DEPLOYMENT = String("railway")
    /\ features.canManageUsers = FALSE
    /\ features.showDeleteButtons = FALSE
    /\ features.canExportData = TRUE

\* C17: when VITE_DEPLOYMENT is 'netlify' the client is read-only: no admin
\* flag and no UI flag is enabled, whatever the other variables hold.
C17_NetlifyReadOnly ==
    (features # NoObject /\ env.VITE_DEPLOYMENT = String("netlify"))
        => \A f \in AdminFlags \cup UiFlags : features[f] = FALSE

\* C18: once disconnect() has been called, no step constructs a WebSocket
\* and no step leaves a reconnect timer pending, in whatever order the close
\* event of the socket and the timers come afterwards.
C18_Cancelled ==
    [][disconnected => /\ Len(sockets') = Len(sockets)
                       /\ Pending(timers') = {}]_vars

\* the socket i is closed by this step
Closes(i) ==
    /\ sockets[i].readyState # "CLOSED"
    /\ sockets'[i].readyState = "CLOSED"

\* a close without disconnect() sets exactly one timer, due in 5 seconds
OneReconnectScheduled ==
    \A i \in DOMAIN sockets :
        (Closes(i) /\ ~disconnected)
            => /\ Len(timers') = Len(timers) + 1
               /\ timers'[Len(timers')] = [state |-> "pending", remaining |-> 5]
               /\ reconnectTimer' = Len(timers')
               /\ Len(sockets') = Len(sockets)

\* after the first connect() a socket is constructed only by a timer that
\* is due, and each timer constructs one socket
OneSocketPerTimer ==
    (sockets # <<>> /\ Len(sockets') # Len(sockets))
        => /\ Len(sockets') = Len(sockets) + 1
           /\ ws' = Len(sockets')
           /\ \E t \in Pending(timers) :
                  /\ timers[t].remaining = 0
                  /\ Pending(timers') = Pending(timers) \ {t}

\* a socket that has opened has sent subscribe_client, once
Subscribed ==
    \A i \in DOMAIN sockets :
        sockets[i].readyState = "OPEN" => sockets[i].sent = <<"subscribe_client">>

\* the socket i is closed, nothing has disconnected, and the model has room
\* for one more socket
Lost(i) ==
    /\ i <= Len(sockets)
    /\ sockets[i].readyState = "CLOSED"
    /\ ~disconnected

\* C19: when a socket closes and disconnect() has not been called, one
\* reconnect is set, due 5 seconds later; while the event loop runs, a new
\* socket follows every such close (unless disconnect() comes first), and a
\* socket that opens has sent subscribe_client.
C19_Reconnects ==
    /\ [][OneReconnectScheduled /\ OneSocketPerTimer]_vars
    /\ []Subscribed
    /\ \A i \in 1 .. MaxSockets - 1 : Lost(i) ~> (Len(sockets) > i \/ disconnected)

C19_Witness ==
    /\ ~disconnected
    /\ Len(sockets) = MaxSockets
    /\ \A i \in 1 .. MaxSockets - 1 : sockets[i].readyState = "CLOSED"
    /\ sockets[1].sent = <<"subscribe_client">>
    /\ sockets[MaxSockets].readyState = "OPEN"
    /\ sockets[MaxSockets].sent = <<"subscribe_client">>
    /\ Pending(timers) = {}
    /\ received = <<<<"setRealtimeData", 2>>>>

\* C30: for every temp, humidity and windSpeed, temp below 0, humidity above
\* 100 and windSpeed below 0 included, the ffdi and the gfdi that
\* calculateFireDanger returns are numbers, never NaN.
C30_IndicesDefined ==
    pc = "done" => ~IsNaN(ret.ffdi) /\ ~IsNaN(ret.gfdi)

\* the Date at m minutes after local midnight is h hours after it, to the
\* minute
OnTheMinute(m, h) == Abs(m * Scale - h * 60) < Scale

\* the returned sunrise and sunset against the hours they were set from
SunTimesAgree(r, sunriseHour, sunsetHour) ==
    /\ OnTheMinute(r.sunrise, sunriseHour)
    /\ OnTheMinute(r.sunset, sunsetHour)
    /\ r.sunrise <= r.sunset
    /\ Abs((r.sunset - r.sunrise) * Scale - r.dayLength) <= Scale

SunTimesFor(r, h, lon, date) ==
    SunTimesAgree(r, SunHour(-1, h, lon, date), SunHour(1, h, lon, date))

\* C29: the sunrise and sunset Dates lie sunriseHour and sunsetHour hours, to
\* the minute, after local midnight of the given date, hours that are
\* negative, fractional or 24 and more included; so sunrise is not later than
\* sunset and sunset - sunrise is dayLength to within one minute.
C29_SunTimes ==
    pc = "done"
        => SunTimesFor(ret, HaRise(arg.lat, arg.date.dayOfYear), arg.lon,
                       arg.date)

\* the verify response says the token is valid
SaysValid(o) ==
    /\ o.kind = "response"
    /\ o.body.kind = "json"
    /\ o.body.value = [valid |-> TRUE]

\* checkSession ends in this step
SessionChecked == session.pc # "done" /\ session'.pc = "done"

\* C21: the session check sets the user, to the saved user, only when both
\* items were stored and the server answers that the token is valid; when the
\* answer is anything else or the check throws, it removes stratus_token and
\* stratus_user and does not set the user.
C21_SessionCheck ==
    [][SessionChecked
          => IF session.pc = "mount" THEN UNCHANGED <<user, storage>>
             ELSE IF SaysValid(session'.response)
                     /\ session.savedUser.kind = "json"
                 THEN /\ session.token # NullObject
                      /\ user' = session.savedUser.value
                      /\ UNCHANGED storage
             ELSE /\ storage' = NoItems
                  /\ UNCHANGED user]_vars

C21_Witness ==
    /\ session.pc = "done"
    /\ "response" \in DOMAIN session
    /\ session.response = Response(401, Json([error |-> "Unauthorized"]))
    /\ session.savedUser = Stringify(SavedUser)
    /\ storage = NoItems
    /\ user = NullObject
    /\ ~page.isLoading
    /\ page.result = NoObject

\* the login response has success true, a user and a token
Granted(o) ==
    /\ o.kind = "response"
    /\ Ok(o.status)
    /\ o.body.kind = "json"
    /\ o.body.value # NullObject
    /\ o.body.value.success
    /\ o.body.value.user # NoObject
    /\ o.body.value.token # NoObject

\* the login request settles in this step
LoginSettled == page.awaiting /\ ~page'.awaiting

\* login resolved to {success: false, error} with a message
Refused(promise) ==
    /\ promise.kind = "resolved"
    /\ promise.value.success = FALSE
    /\ promise.value.error # ""

\* C22: login stores the token and the user and sets the auth user exactly
\* when the response has success true, a user and a token; in every other
\* case it leaves the storage and the user unchanged and returns
\* {success: false, error} with a message that is not empty.
C22_LoginStores ==
    [][LoginSettled
          => IF Granted(page'.request)
                 THEN /\ storage' = [stratus_token |-> NewToken,
                                     stratus_user |-> Stringify(NewUser)]
                      /\ user' = NewUser
                      /\ page'.result = Resolved([success |-> TRUE, error |-> ""])
             ELSE /\ UNCHANGED <<storage, user>>
                  /\ Refused(page'.result)]_vars

C22_Witness ==
    /\ page.request = Response(200, LoginBody(TRUE, NewUser, NoObject, ""))
    /\ page.result = Resolved([success |-> FALSE, error |-> "Login failed"])
    /\ user = NullObject
    /\ storage = NoItems
    /\ session.pc = "done"

\* the promise of login is resolved with an object that has a success flag
HasFlag(promise) ==
    /\ promise.kind = "resolved"
    /\ promise.value.success \in BOOLEAN

\* C23: login never rejects, whatever the request ends with, so isLoading
\* of the form returns to false after every submit; the page goes to
\* /dashboard only when success is true and shows a message otherwise.
C23_SubmitEnds ==
    /\ [](page.result # NoObject => HasFlag(page.result))
    /\ [][LoginSettled
             => /\ HasFlag(page'.result)
                /\ ~page'.isLoading
                /\ IF page'.result.value.success
                       THEN page'.route = "/dashboard"
                   ELSE page'.route = page.route /\ page'.error # ""]_vars
    /\ [][page'.route # page.route => LoginSettled]_vars
    /\ (page.isLoading ~> ~page.isLoading)

C23_Witness ==
    /\ page.request = Response(200, NotJson)
    /\ page.result.kind = "resolved"
    /\ ~page.result.value.success
    /\ page.error = "Unexpected token < in JSON at position 0"
    /\ ~page.isLoading
    /\ page.route = "/login"

\* C25: in every state a user that is not null implies that stratus_token
\* and stratus_user are stored, however the session check, login and logout
\* interleave; and after logout the user is null and both keys are absent.
C25_LoggedInMeansStored ==
    /\ [](user # NullObject
             => /\ storage.stratus_token # NullObject
                /\ storage.stratus_user # NullObject)
    /\ [][Logout => user' = NullObject /\ storage' = NoItems]_vars

\* C26: isLoading of the auth context starts true, is false once the session
\* check has finished on whatever path, never becomes true again, and, when
\* the verify request settles, eventually becomes false.
C26_LoadingEnds ==
    /\ isLoading = TRUE
    /\ [](session.pc = "done" => ~isLoading)
    /\ [][~isLoading => ~isLoading']_vars
    /\ <>(~isLoading)

C26_Witness ==
    /\ ~isLoading
    /\ session.pc = "done"
    /\ "response" \in DOMAIN session
    /\ session.response = Response(200, NotJson)
    /\ storage = NoItems

\* the request did not deliver a readable body: a network error, a status
\* that is not OK, or a body that is not JSON
Unusable(o) ==
    \/ o.kind = "network"
    \/ ~Ok(o.status)
    \/ o.body.kind # "json"

\* C24: api.getStation, api.getLatestData and api.getHistoricalData never
\* reject; on a network error, a status that is not OK or an unreadable body
\* they resolve to null, null and [].
C24_NeverRejects ==
    pc = "done"
        => /\ ret.kind = "resolved"
           /\ Unusable(arg.outcome) => ret.value = Fallback(arg.fn)

\* the sockets that are connecting or open
Live(socks) == {i \in DOMAIN socks : socks[i].readyState \in {"CONNECTING", "OPEN"}}

\* C27: a RealtimeConnection has at most one socket that is connecting or
\* open and at most one pending reconnect timer, whatever the sequence of
\* connect(), disconnect(), close events and timer firings.
C27_OneSocketOneTimer ==
    /\ Cardinality(Live(sockets)) <= 1
    /\ Cardinality(Pending(timers)) <= 1

\* how many times the listener is in the array
Registrations(ls, listener) == Cardinality({k \in DOMAIN ls : ls[k] = listener})

\* how many of the calls are calls of the listener with the data
CallsOf(calls, listener, data) == Cardinality({k \in DOMAIN calls : calls[k] = <<listener, data>>})

\* a weather_update calls each registered listener once with its data, and
\* no other listener; another message calls nobody and changes nothing
DeliveredOnce(message) ==
    IF message.type = "weather_update"
        THEN /\ Len(received') = Cardinality({l \in Listeners : Registrations(listeners, l) > 0})
             /\ \A l \in Listeners :
                    CallsOf(received', l, message.data)
                        = IF Registrations(listeners, l) > 0 THEN 1 ELSE 0
             /\ UNCHANGED <<ws, sockets, reconnectTimer, timers, listeners>>
    ELSE UNCHANGED connVars

\* the unsubscribe function of a listener removes it, and only it
RemovesOnlyIt(listener) ==
    /\ Registrations(listeners', listener) = 0
    /\ \A other \in Listeners \ {listener} :
           Registrations(listeners', other) = Registrations(listeners, other)

\* C28: a listener registered with onData is called exactly once, with the
\* data, for every weather_update received until its unsubscribe function
\* is called, and never afterwards; unsubscribing removes only that
\* listener; a message of another type or malformed JSON is delivered to no
\* listener and leaves the connection and the listeners unchanged.
C28_ListenerCalls ==
    [][/\ \A i \in DOMAIN sockets : \A message \in Messages :
              MessageEvent(i, message) => DeliveredOnce(message)
       /\ \A listener \in Listeners :
              Unsubscribe(listener) => RemovesOnlyIt(listener)]_vars

====
